---- MODULE Spec2Model ----
(***************************************************************************)
(* expo-iap: the unified JavaScript API (index.ts), the purchase-updated   *)
(* event layer, and the native backends it talks to.                       *)
(*                                                                         *)
(* JavaScript values that are not strings are written as "#..." strings:   *)
(* "#undefined", "#null", "#number".  A JS value that may be null, an      *)
(* object or an array is a record with a tag field.                        *)
(***************************************************************************)
EXTENDS Integers, Sequences, FiniteSets, TLC

\* ---------------------------------------------------------------- bounds
\* number of purchases (transactions / purchase tokens) the store knows
MaxTokens == 2
\* longest list a native call answers with
MaxItems == 2
\* longest run of purchase-updated events the native layer emits
MaxEvents == 2
\* longest list of purchases a native query answers with
MaxPurchases == 1
\* number of calls made into the Horizon module
MaxCalls == 2

\* ------------------------------------------------------------ universes
Platforms == {"ios", "android", "web"}
Backends == {"ExpoIapOnside", "ExpoIap"}
AllTokens == <<"tok1", "tok2", "tok3">>
Tokens == {AllTokens[i] : i \in 1..MaxTokens}
SKUs == {"a.b", "a.c"}
UNDEF == "#undefined"
NULL == "#null"

\* a JS value: null, undefined, one object, or an array of objects
JNull == [tag |-> "null", items |-> <<>>]
JUndefined == [tag |-> "undefined", items |-> <<>>]
JObject(o) == [tag |-> "object", items |-> <<o>>]
JArray(s) == [tag |-> "array", items |-> s]

\* sequences over S of length at most n
SeqUpTo(S, n) == UNION {[1..k -> S] : k \in 0..n}

\* ---------------------------------------------------------------- errors
\* ErrorCode (types.ts), the closed enumeration of canonical codes
ErrorCode ==
  {"activity-unavailable", "already-owned", "already-prepared",
   "billing-response-json-parse-error", "billing-unavailable",
   "connection-closed", "deferred-payment", "developer-error",
   "empty-sku-list", "feature-not-supported", "iap-not-available",
   "init-connection", "interrupted", "item-not-owned", "item-unavailable",
   "network-error", "not-ended", "not-prepared", "pending", "purchase-error",
   "query-product", "receipt-failed", "receipt-finished",
   "receipt-finished-failed", "remote-error", "service-disconnected",
   "service-error", "sku-not-found", "sku-offer-mismatch", "sync-error",
   "transaction-validation-failed", "unknown", "user-cancelled", "user-error"}

NoError == [name |-> "", code |-> UNDEF, productId |-> UNDEF, platform |-> UNDEF, message |-> ""]

\* new Error(message): a plain Error carries no code
JsError(message) ==
  [name |-> "Error", code |-> UNDEF, productId |-> UNDEF, platform |-> UNDEF, message |-> message]

\* a TypeError raised by the JS runtime (property access on null/undefined)
TypeError(message) ==
  [name |-> "TypeError", code |-> UNDEF, productId |-> UNDEF, platform |-> UNDEF, message |-> message]

\* createPurchaseError(props): keeps every field it is given
createPurchaseError(message, code, productId, platform) ==
  [name |-> "[expo-iap]: PurchaseError", code |-> code, productId |-> productId,
   platform |-> platform, message |-> message]

\* the rejection of a native bridge call
NativeError(code, message) ==
  [name |-> "NativeError", code |-> code, productId |-> UNDEF, platform |-> UNDEF, message |-> message]

\* ----------------------------------------------------------------- state
VARIABLES
  os,               \* Platform.OS
  backend,          \* the native module ExpoIapModule resolved to
  isInitialized,    \* OnsideIapModule.isInitialized
  store,            \* the store's record of each purchase: absent, pending, finished
  transactionCache, \* OnsideIapModule.transactionCache (transaction ids)
  call,             \* the latest unified-API call: its arguments and how it settled
  nativeLog         \* the native bridge calls that API call made, in order

apiVars == <<os, backend, isInitialized, store, transactionCache, call, nativeLog>>

VARIABLES
  listeners,        \* the purchase-updated listeners registered with the emitter
  emitted,          \* the purchase-updated payloads the native layer has emitted
  received          \* per listener, in order: each event and the purchase the
                    \* callback was called with for it

eventVars == <<listeners, emitted, received>>

\* the Horizon (Meta Quest) Android module, ExpoIapModule.kt
VARIABLES
  billingClientCache,  \* "null" or "client"
  cachedSkus,          \* `skus`: the product ids whose details the module has cached
  promises,            \* PromiseUtils.promises[PROMISE_BUY_ITEM], in order
  promise,             \* per promise of a native call: the call and its outcome
  callbacks,        \* startConnection callbacks the billing service owes
  flows,               \* billing flows launched and not yet reported back
  horizonLog           \* events sent, promises settled, flows launched, in order

horizonVars == <<billingClientCache, cachedSkus, promises, promise, callbacks, flows, horizonLog>>

\* the native bridge adapter, modules/ExpoIapModule.ts and onside/index.ts
VARIABLES
  installedFromOnside, \* onside/index.ts: null until the marketplace check answers
  nativeModules,       \* per candidate name: what requireNativeModule(name) does now
  resolution           \* the module-level binding of resolveNativeModule()'s result

resolveVars == <<installedFromOnside, nativeModules, resolution>>

\* the platform-exclusive listeners of index.ts
VARIABLES
  exclusiveListeners,  \* the emitter's listeners for the platform-exclusive events
  subscriptions,       \* the subscriptions the callers hold
  invoked              \* the callbacks the emitter has called, per event

gatedVars == <<exclusiveListeners, subscriptions, invoked>>

\* the Onside module (OnsideIapModule, OnsideProductFetcher), native side
VARIABLES
  restoreContinuation, \* OnsideIapModule.restoreContinuation: nil or a restore call
  restores,            \* per restorePurchases call: how far it is, and how often
                       \* and with what its continuation was resumed
  fetchContinuation,   \* OnsideProductFetcher.continuation: nil or a fetch
  fetchRequest,        \* OnsideProductFetcher.request: nil or a fetch's request
  fetches,             \* per productFetcher.fetch call: its request and continuation
  delivered            \* the transactions sent to JS as purchase-updated events

onsideVars == <<restoreContinuation, restores, fetchContinuation, fetchRequest, fetches, delivered>>
vars == <<apiVars, eventVars, horizonVars, resolveVars, gatedVars, onsideVars>>

NoCall == [fn |-> "none", outcome |-> "none", value |-> JUndefined, error |-> NoError]

\* a settled call
Resolved(fn, args, value) ==
  [fn |-> fn, args |-> args, outcome |-> "resolved", value |-> value, error |-> NoError]
Rejected(fn, args, error) ==
  [fn |-> fn, args |-> args, outcome |-> "rejected", value |-> JUndefined, error |-> error]

\* no call is being awaited: the caller has taken the result of the last one
Idle == call.fn = "none"

\* one native bridge call: the operation, its (string) arguments, and what the
\* native side answered (a JS value, or NativeRejected)
NativeRejected == [tag |-> "rejected", items |-> <<>>]
NativeCall(op, arg, flag) == [op |-> op, arg |-> arg, flag |-> flag, answer |-> JUndefined]
NativeCallAnswered(op, arg, flag, answer) == [op |-> op, arg |-> arg, flag |-> flag, answer |-> answer]

\* ------------------------------------------------------------ purchases
\* a purchase as the native layer serializes it
NativePurchase(id, platform) ==
  [id |-> id, productId |-> "a.b", purchaseToken |-> id, transactionId |-> id,
   platform |-> platform]

\* typeof v === 'string'
IsString(v) == v \notin {UNDEF, NULL, "#number"}

\* String.prototype.toLowerCase on the platform strings of the model
ToLowerCase(str) ==
  CASE str \in {"IOS", "iOS", "Ios"} -> "ios"
    [] str \in {"ANDROID", "Android"} -> "android"
    [] str \in {"WEB", "Web"} -> "web"
    [] OTHER -> str

normalizePurchasePlatformRaw(purchase) == purchase
normalizePurchasePlatformAnyString(purchase) ==
  IF IsString(purchase.platform)
    THEN [purchase EXCEPT !.platform = ToLowerCase(purchase.platform)]
    ELSE purchase
\* normalizePurchasePlatform (index.ts)
normalizePurchasePlatform(purchase) ==
  LET platform == purchase.platform IN
  IF ~IsString(platform)
    THEN purchase
    ELSE LET lowered == ToLowerCase(platform) IN
         IF lowered = platform \/ (lowered # "ios" /\ lowered # "android")
           THEN purchase
           ELSE [purchase EXCEPT !.platform = lowered]

\* normalizePurchaseArray (index.ts): purchases.map(normalizePurchasePlatform)
normalizePurchaseArray(purchases) ==
  [i \in 1..Len(purchases) |-> normalizePurchasePlatform(purchases[i])]

\* ----------------------------------------------------- finishTransaction
\* the purchases a caller can hand to finishTransaction
FinishPurchases ==
  UNION {{[id |-> id, productId |-> sku, purchaseToken |-> tok, transactionId |-> id]
            : sku \in SKUs, tok \in {UNDEF, NULL, "", id}} : id \in Tokens}
IsConsumableValues == {"true", "false", UNDEF}

\* the default parameter `isConsumable = false`
IsConsumableOrDefault(isConsumable) == isConsumable = "true"

\* `purchase.purchaseToken ?? undefined`
TokenOrUndefined(purchaseToken) == IF purchaseToken = NULL THEN UNDEF ELSE purchaseToken

IsMissingTokenStrict(token) == token = UNDEF
\* `!token`
IsMissingToken(token) == token \in {UNDEF, NULL, ""}

AndroidFinishOpsFallThrough(token, consumable) ==
  IF consumable
    THEN <<NativeCall("consumePurchaseAndroid", token, UNDEF),
           NativeCall("acknowledgePurchaseAndroid", token, UNDEF)>>
    ELSE <<NativeCall("acknowledgePurchaseAndroid", token, UNDEF)>>
\* the native operations the Android branch issues for a token
AndroidFinishOps(token, consumable) ==
  IF consumable
    THEN <<NativeCall("consumePurchaseAndroid", token, UNDEF)>>
    ELSE <<NativeCall("acknowledgePurchaseAndroid", token, UNDEF)>>

\* the log of native operations that were rejected
RejectedOps(ops) == [i \in 1..Len(ops) |-> [ops[i] EXCEPT !.answer = NativeRejected]]

\* the store (StoreKit, Play Billing) runs a finish, consume or acknowledge
\* operation for the purchase `id`: it succeeds for a purchase the store has
NativeFinishSucceeds(id, nativeOk) == nativeOk /\ id \in Tokens /\ store[id] # "absent"
StoreFinish(id) == [store EXCEPT ![id] = "finished"]

OnsideFinishKeepsCache(cache, uuid) == cache
\* OnsideIapModule finishTransaction: `transactionCache.removeValue(forKey: uuid)`
OnsideFinishRemove(cache, uuid) == cache \ {uuid}

\* OnsideIapModule AsyncFunction("finishTransaction"): its effect on the module
OnsideFinishTransaction(purchase) ==
  /\ isInitialized' = TRUE
  /\ IF purchase.transactionId \in transactionCache
       THEN /\ store' = StoreFinish(purchase.transactionId)
            /\ transactionCache' = OnsideFinishRemove(transactionCache, purchase.transactionId)
       ELSE UNCHANGED <<store, transactionCache>>

\* ... and whether it returns true (otherwise it throws transactionNotFound)
OnsideFinishResolves(purchase) == purchase.transactionId \in transactionCache

\* finishTransaction (index.ts)
finishTransaction(purchase, isConsumable, nativeOk) ==
  LET args == [purchase |-> purchase, isConsumable |-> isConsumable]
      consumable == IsConsumableOrDefault(isConsumable)
      token == TokenOrUndefined(purchase.purchaseToken)
  IN
  CASE os = "ios" ->
         LET ops == <<NativeCall("finishTransaction", purchase.transactionId,
                                 IF consumable THEN "true" ELSE "false")>> IN
         IF backend = "ExpoIapOnside"
           THEN /\ OnsideFinishTransaction(purchase)
                /\ IF OnsideFinishResolves(purchase)
                     THEN /\ nativeLog' = ops
                          /\ call' = Resolved("finishTransaction", args, JUndefined)
                     ELSE /\ nativeLog' = RejectedOps(ops)
                          /\ call' = Rejected("finishTransaction", args,
                                       NativeError("transactionNotFound", purchase.transactionId))
           ELSE /\ UNCHANGED <<isInitialized, transactionCache>>
                /\ IF NativeFinishSucceeds(purchase.id, nativeOk)
                     THEN /\ nativeLog' = ops
                          /\ store' = StoreFinish(purchase.id)
                          /\ call' = Resolved("finishTransaction", args, JUndefined)
                     ELSE /\ nativeLog' = RejectedOps(ops)
                          /\ UNCHANGED store
                          /\ call' = Rejected("finishTransaction", args,
                                              NativeError("E_UNKNOWN", "finish failed"))
    [] os = "android" ->
         /\ UNCHANGED <<isInitialized, transactionCache>>
         /\ IF IsMissingToken(token)
              THEN /\ nativeLog' = <<>>
                   /\ UNCHANGED store
                   /\ call' = Rejected("finishTransaction", args,
                        createPurchaseError("Purchase token is required to finish transaction",
                                            "developer-error", purchase.productId, "android"))
              ELSE IF NativeFinishSucceeds(token, nativeOk)
                     THEN /\ nativeLog' = AndroidFinishOps(token, consumable)
                          /\ store' = StoreFinish(token)
                          /\ call' = Resolved("finishTransaction", args, JUndefined)
                     ELSE /\ nativeLog' = RejectedOps(AndroidFinishOps(token, consumable))
                          /\ UNCHANGED store
                          /\ call' = Rejected("finishTransaction", args,
                                              NativeError("E_UNKNOWN", "finish failed"))
    [] OTHER ->
         /\ nativeLog' = <<>>
         /\ UNCHANGED <<isInitialized, store, transactionCache>>
         /\ call' = Rejected("finishTransaction", args, JsError("Unsupported Platform"))

FinishTransaction ==
  \E purchase \in FinishPurchases, isConsumable \in IsConsumableValues, nativeOk \in BOOLEAN :
    /\ Idle
    /\ finishTransaction(purchase, isConsumable, nativeOk)
    /\ UNCHANGED <<resolveVars, os, backend, eventVars, horizonVars, gatedVars, onsideVars>>

\* ------------------------------------------------------- requestPurchase
TypeInputs == {UNDEF, "inapp", "in-app", "subs", "all", "bogus"}
THROWS == "#throws"

\* normalizeProductType (index.ts): the canonical type, or THROWS
normalizeProductType(type) ==
  CASE type \in {UNDEF, NULL, "", "inapp", "in-app"} -> "in-app"
    [] type = "subs" -> "subs"
    [] type = "all" -> "all"
    [] OTHER -> THROWS

\* request.ios: absent, or an object whose sku is undefined, '' or a SKU
IosProps ==
  {[present |-> FALSE, sku |-> UNDEF]} \cup
  {[present |-> TRUE, sku |-> sku] : sku \in {UNDEF, "", "a.b"}}

\* request.android: absent, or an object with skus and subscriptionOffers
OfferInputs == {JUndefined, JArray(<<>>), JArray(<<"offerToken1">>)}
AndroidProps ==
  {[present |-> FALSE, skus |-> JUndefined, subscriptionOffers |-> JUndefined]} \cup
  {[present |-> TRUE, skus |-> skus, subscriptionOffers |-> JUndefined] :
     skus \in {JUndefined, JArray(<<>>)}} \cup
  {[present |-> TRUE, skus |-> JArray(<<"a.b">>), subscriptionOffers |-> offers] :
     offers \in OfferInputs}

\* the arguments of requestPurchase: the props of the running platform vary,
\* those of the other platform (which the code never reads) are well-formed
WellFormedIos == [present |-> TRUE, sku |-> "a.b"]
WellFormedAndroid ==
  [present |-> TRUE, skus |-> JArray(<<"a.b">>), subscriptionOffers |-> JArray(<<"offerToken1">>)]
RequestPurchaseArgs ==
  {[type |-> "in-app", hasRequest |-> FALSE,
    ios |-> [present |-> FALSE, sku |-> UNDEF],
    android |-> [present |-> FALSE, skus |-> JUndefined, subscriptionOffers |-> JUndefined]]}
  \cup
  {[type |-> type, hasRequest |-> TRUE, ios |-> ios, android |-> android] :
     type \in TypeInputs,
     ios \in (IF os = "ios" THEN IosProps ELSE {WellFormedIos}),
     android \in (IF os = "android" THEN AndroidProps ELSE {WellFormedAndroid})}

\* `!normalizedRequest?.sku`
LacksSku(ios) == ~ios.present \/ ios.sku \in {UNDEF, NULL, ""}
\* `!normalizedRequest?.skus?.length`
LacksSkusPresenceOnly(android) == ~android.present
LacksSkus(android) ==
  ~android.present \/ android.skus.tag # "array" \/ Len(android.skus.items) = 0

\* `subscriptionOffers ?? []`, then the offer tokens of the offers
OfferTokens(android) ==
  IF android.subscriptionOffers.tag = "array" THEN android.subscriptionOffers.items ELSE <<>>

\* the payload index.ts hands to ExpoIapModule.requestPurchase on Android
AndroidPurchasePayload(native, android, isSubs) ==
  [type |-> native,
   skuArr |-> android.skus.items,
   purchaseToken |-> UNDEF,
   replacementMode |-> -1,
   offerTokenArr |-> IF isSubs THEN OfferTokens(android) ELSE <<>>,
   isOfferPersonalized |-> FALSE]

NoPayload ==
  [type |-> UNDEF, skuArr |-> <<>>, purchaseToken |-> UNDEF, replacementMode |-> -1,
   offerTokenArr |-> <<>>, isOfferPersonalized |-> FALSE]

\* what the native requestPurchase can answer: nothing, one purchase, a list
\* with one purchase, or a rejection.  A purchase it answers with is a new one.
RequestPurchaseAnswers ==
  {JNull, NativeRejected} \cup
  UNION {{JObject(NativePurchase(t, plat)), JArray(<<NativePurchase(t, plat)>>)} :
           t \in {u \in Tokens : store[u] = "absent"},
           plat \in (IF os = "ios" THEN {"ios", "IOS"} ELSE {"android", "Android"})}

\* the Onside backend's requestPurchase returns nil or throws
OnsideRequestPurchaseAnswers == {JNull, NativeRejected}

\* the store records the purchases a native answer carries
StoreAfterPurchase(answer) ==
  [t \in Tokens |->
     IF \E i \in 1..Len(answer.items) : answer.items[i].id = t THEN "pending" ELSE store[t]]

IosNullResultAlwaysNull(canonical) == JNull
\* `return canonical === 'subs' ? [] : null`
IosNullResult(canonical) == IF canonical = "subs" THEN JArray(<<>>) ELSE JNull

\* the value requestPurchase resolves to on iOS for a native answer
IosPurchaseResult(answer, canonical) ==
  CASE answer.tag = "array" -> JArray(normalizePurchaseArray(answer.items))
    [] answer.tag = "object" -> JObject(normalizePurchasePlatform(answer.items[1]))
    [] OTHER -> IosNullResult(canonical)

\* requestPurchase (index.ts): a call that fails before the native call
RequestFailsEarly(args, error) ==
  /\ call' = Rejected("requestPurchase", args, error)
  /\ nativeLog' = <<>>
  /\ UNCHANGED <<isInitialized, store, transactionCache>>

\* requestPurchase (index.ts): the native call and what becomes of its answer
RequestCallsNative(args, payload, answer, canonical) ==
  /\ nativeLog' = <<[op |-> "requestPurchase", arg |-> UNDEF, flag |-> UNDEF,
                     answer |-> answer, payload |-> payload]>>
  /\ isInitialized' = (isInitialized \/ backend = "ExpoIapOnside")
  /\ UNCHANGED transactionCache
  /\ store' = StoreAfterPurchase(answer)
  /\ call' =
       IF answer = NativeRejected
         THEN Rejected("requestPurchase", args, NativeError("E_UNKNOWN", "purchase failed"))
       ELSE IF os = "ios"
         THEN Resolved("requestPurchase", args, IosPurchaseResult(answer, canonical))
       ELSE IF answer.tag = "array"
         THEN Resolved("requestPurchase", args, JArray(normalizePurchaseArray(answer.items)))
         ELSE Rejected("requestPurchase", args, TypeError("purchases.map is not a function"))

\* requestPurchase (index.ts), up to the native call: the error it throws
\* before calling the native side, or the payload it calls it with
FailEarly(error) == [early |-> TRUE, error |-> error, payload |-> NoPayload]
CallNative(payload) == [early |-> FALSE, error |-> NoError, payload |-> payload]
requestPurchaseChecks(args) ==
  LET canonical == normalizeProductType(args.type) IN
  IF canonical = THROWS
    THEN FailEarly(JsError("Unsupported product type"))
  ELSE IF os \in {"ios", "android"} /\ ~args.hasRequest
    THEN FailEarly(TypeError("Cannot read properties of undefined"))
  ELSE
  CASE os = "ios" ->
         IF LacksSku(args.ios)
           THEN FailEarly(JsError("Invalid request for iOS"))
         ELSE IF canonical # "in-app" /\ canonical # "subs"
           THEN FailEarly(JsError("Unsupported product type"))
           ELSE CallNative(NoPayload)
    [] os = "android" ->
         IF canonical = "in-app"
           THEN IF LacksSkus(args.android)
                  THEN FailEarly(JsError("Invalid request for Android"))
                  ELSE CallNative(AndroidPurchasePayload(canonical, args.android, FALSE))
         ELSE IF canonical = "subs"
           THEN IF LacksSkus(args.android)
                  THEN FailEarly(JsError("Invalid request for Android"))
                  ELSE CallNative(AndroidPurchasePayload(canonical, args.android, TRUE))
           ELSE FailEarly(JsError("Invalid request for Android"))
    [] OTHER -> FailEarly(JsError("Platform not supported"))

\* requestPurchase (index.ts)
RequestPurchase ==
  \E args \in RequestPurchaseArgs :
    LET checks == requestPurchaseChecks(args) IN
    /\ Idle
    /\ IF checks.early
         THEN RequestFailsEarly(args, checks.error)
         ELSE \E answer \in (IF backend = "ExpoIapOnside"
                               THEN OnsideRequestPurchaseAnswers ELSE RequestPurchaseAnswers) :
                RequestCallsNative(args, checks.payload, answer,
                                   normalizeProductType(args.type))
    /\ UNCHANGED <<resolveVars, os, backend, eventVars, horizonVars, gatedVars, onsideVars>>

\* the store delivers the unfinished purchase `id` to the app.  With the Onside
\* backend this is transactionObserver.onTransactionsUpdated, which caches it.
StoreDeliver ==
  \E id \in Tokens :
    /\ store[id] # "finished"
    /\ backend = "ExpoIapOnside" => isInitialized
    /\ store' = [store EXCEPT ![id] = "pending"]
    /\ transactionCache' =
         IF backend = "ExpoIapOnside" THEN transactionCache \cup {id} ELSE transactionCache
    /\ UNCHANGED <<resolveVars, os, backend, isInitialized, call, nativeLog, eventVars, horizonVars, gatedVars, onsideVars>>

\* --------------------------------------------------------- fetchProducts
\* the skus argument: missing, not an array, or an array of SKUs
NotAnArray == [tag |-> "string", items |-> <<>>]
SkusInputs == {JUndefined, NotAnArray, JArray(<<>>), JArray(<<"a.b">>), JArray(<<"a.b", "a.c">>)}
FetchArgs ==
  {[hasRequest |-> FALSE, skus |-> JUndefined, type |-> UNDEF]} \cup
  [hasRequest : {TRUE}, skus : SkusInputs, type : TypeInputs]

\* what a native fetch can hand back: products of either platform and type,
\* with ids inside and outside the request, items without a string id, null
NullItem == [id |-> NULL, platform |-> NULL, type |-> NULL]
RawItems ==
  [id : {"a.b", "a.c", "x.y"}, platform : {"ios", "android", UNDEF}, type : {"in-app", "subs"}]
  \cup [id : {UNDEF}, platform : {"ios", "android"}, type : {"in-app"}]
  \cup {NullItem}

\* OnsideIapModule.serializeProduct: every product is tagged ios and in-app
serializeProduct(sku) == [id |-> sku, platform |-> "ios", type |-> "in-app"]

\* the answers of the native fetchProducts.  The Onside backend serializes the
\* requested products or throws; the general backend is not trusted.
FetchAnswers(skus) ==
  IF backend = "ExpoIapOnside"
    THEN {JArray([i \in 1..Len(skus) |-> serializeProduct(skus[i])]), NativeRejected}
    ELSE {JNull, NativeRejected} \cup {JArray(items) : items \in SeqUpTo(RawItems, MaxItems)}

\* isProductIOS / isProductAndroid (modules/ios, modules/android)
isProductIOS(item) == item # NullItem /\ item.platform = "ios"
isProductAndroid(item) == item # NullItem /\ item.platform = "android"

SetOf(seq) == {seq[i] : i \in 1..Len(seq)}

KeepsIosItemAnyId(item, skus) == isProductIOS(item)
\* the predicate of filterIosItems
KeepsIosItem(item, skus) ==
  isProductIOS(item) /\ IsString(item.id) /\ item.id \in SetOf(skus)
\* the predicate of filterAndroidItems
KeepsAndroidItem(item, skus) ==
  isProductAndroid(item) /\ IsString(item.id) /\ item.id \in SetOf(skus)

filterIosItems(items, skus) == SelectSeq(items, LAMBDA item : KeepsIosItem(item, skus))
filterAndroidItems(items, skus) == SelectSeq(items, LAMBDA item : KeepsAndroidItem(item, skus))

\* castResult: a type assertion, the items are returned as they are
castResult(items, canonical) == items

\* `!Array.isArray(skus) || skus.length === 0`
NoSkusEmptyOnly(skus) == skus.tag = "array" /\ Len(skus.items) = 0
NoSkus(skus) == skus.tag # "array" \/ Len(skus.items) = 0

\* fetchProducts (index.ts): a call that throws before the native call
FetchFailsEarly(args, error) ==
  /\ call' = Rejected("fetchProducts", args, error)
  /\ nativeLog' = <<>>
  /\ UNCHANGED isInitialized

\* fetchProducts (index.ts): the native call and the filtering of its answer
FetchCallsNative(args, canonical, answer) ==
  /\ nativeLog' = <<NativeCallAnswered("fetchProducts", canonical, UNDEF, answer)>>
  /\ isInitialized' = (isInitialized \/ backend = "ExpoIapOnside")
  /\ call' =
       IF answer = NativeRejected
         THEN Rejected("fetchProducts", args, NativeError("E_QUERY_PRODUCT", "fetch failed"))
       ELSE IF answer.tag # "array"
         THEN Rejected("fetchProducts", args, TypeError("Cannot read properties of null"))
       ELSE IF os = "ios"
         THEN Resolved("fetchProducts", args,
                JArray(castResult(filterIosItems(answer.items, args.skus.items), canonical)))
         ELSE Resolved("fetchProducts", args,
                JArray(castResult(filterAndroidItems(answer.items, args.skus.items), canonical)))

\* the answers of the native fetchProducts with at most one item
FetchAnswersBrief(skus) ==
  IF backend = "ExpoIapOnside"
    THEN FetchAnswers(skus)
    ELSE {JNull, NativeRejected} \cup {JArray(items) : items \in SeqUpTo(RawItems, 1)}

\* fetchProducts (index.ts); brief: the native side answers with at most one item
FetchProductsOver(brief) ==
  \E args \in FetchArgs :
    LET canonical == normalizeProductType(args.type) IN
    /\ Idle
    /\ IF NoSkus(args.skus)
         THEN FetchFailsEarly(args,
                createPurchaseError("No SKUs provided", "empty-sku-list", UNDEF, UNDEF))
       ELSE IF canonical = THROWS
         THEN FetchFailsEarly(args, JsError("Unsupported product type"))
       ELSE IF os \notin {"ios", "android"}
         THEN FetchFailsEarly(args, JsError("Unsupported platform"))
         ELSE \E answer \in (IF brief THEN FetchAnswersBrief(args.skus.items)
                                      ELSE FetchAnswers(args.skus.items)) :
                FetchCallsNative(args, canonical, answer)
    /\ UNCHANGED <<resolveVars, os, backend, store, transactionCache, eventVars, horizonVars, gatedVars, onsideVars>>

\* fetchProducts (index.ts)
FetchProducts == FetchProductsOver(FALSE)

\* fetchProducts (index.ts), where only the fate of the call matters
FetchProductsBrief == FetchProductsOver(TRUE)

\* ------------------------------------------- getAvailablePurchases, events
ListenerIds == {"listener1", "listener2"}

\* the purchases the native layer reports, in queries and in events: the
\* platform field comes in any case, or is not a string at all
NativePlatforms == {"IOS", "Android", "#number"}
NativePurchases == {NativePurchase("tok1", plat) : plat \in NativePlatforms}

\* the options of getAvailablePurchases; each flag is left out or set against
\* its default
PurchaseOptions ==
  [alsoPublishToEventListenerIOS : {UNDEF, "true"}, onlyIncludeActiveItemsIOS : {UNDEF, "false"}]

\* `options?.flag ?? default`
FlagOr(flag, default) == IF flag \in {UNDEF, NULL} THEN default ELSE flag

\* the answers of the native getAvailableItems
AvailableItemsAnswers ==
  {JNull, NativeRejected} \cup {JArray(items) : items \in SeqUpTo(NativePurchases, MaxPurchases)}

\* the Onside module defines no getAvailableItems function
HasGetAvailableItems == backend # "ExpoIapOnside"

\* getAvailablePurchases (index.ts): the native call Platform.select picks
AvailableItemsCall(options, answer) ==
  CASE os = "ios" /\ HasGetAvailableItems ->
         <<NativeCallAnswered("getAvailableItems",
                              FlagOr(options.alsoPublishToEventListenerIOS, "false"),
                              FlagOr(options.onlyIncludeActiveItemsIOS, "true"), answer)>>
    [] os = "android" -> <<NativeCallAnswered("getAvailableItems", UNDEF, UNDEF, answer)>>
    [] OTHER -> <<>>

AvailablePurchasesResultSwallowing(fn, args, answer) ==
  IF os \in {"ios", "android"} /\ HasGetAvailableItems /\ answer.tag = "array"
    THEN Resolved(fn, args, JArray(normalizePurchaseArray(answer.items)))
    ELSE Resolved(fn, args, JArray(<<>>))
\* getAvailablePurchases (index.ts): how the call settles for a native answer
AvailablePurchasesResult(fn, args, answer) ==
  IF os \notin {"ios", "android"}
    THEN Resolved(fn, args, JArray(normalizePurchaseArray(<<>>)))
  ELSE IF ~HasGetAvailableItems
    THEN Rejected(fn, args, TypeError("ExpoIapModule.getAvailableItems is not a function"))
  ELSE IF answer = NativeRejected
    THEN Rejected(fn, args, NativeError("E_UNKNOWN", "query failed"))
  ELSE IF answer.tag # "array"
    THEN Rejected(fn, args, TypeError("Cannot read properties of null (reading 'map')"))
    ELSE Resolved(fn, args, JArray(normalizePurchaseArray(answer.items)))

\* getAvailablePurchases (index.ts)
GetAvailablePurchases ==
  \E options \in PurchaseOptions, answer \in AvailableItemsAnswers :
    /\ Idle
    /\ (os \notin {"ios", "android"} \/ ~HasGetAvailableItems) => answer = JNull
    /\ nativeLog' = AvailableItemsCall(options, answer)
    /\ call' = AvailablePurchasesResult("getAvailablePurchases", options, answer)
    /\ UNCHANGED <<resolveVars, os, backend, isInitialized, store, transactionCache, eventVars, horizonVars, gatedVars, onsideVars>>

\* ---------------------------------------------------------- restorePurchases
JTrue == [tag |-> "true", items |-> <<>>]

\* what the native syncIOS answers
SyncAnswers == {JTrue, NativeRejected}

\* the options restorePurchases hands to getAvailablePurchases
RestoreOptions == [alsoPublishToEventListenerIOS |-> "false", onlyIncludeActiveItemsIOS |-> "true"]

\* syncIOS (modules/ios.ts): the native syncIOS call, on iOS only; the Onside
\* module defines no syncIOS function
SyncCall(syncAnswer) ==
  IF os = "ios" /\ backend = "ExpoIap"
    THEN <<NativeCallAnswered("syncIOS", UNDEF, UNDEF, syncAnswer)>>
    ELSE <<>>

\* `await syncIOS().catch(() => undefined)`, then the awaited query: how
\* restorePurchases settles
RestoreOutcomeSurfacingSync(syncAnswer, query) ==
  IF os = "ios" /\ syncAnswer = NativeRejected
    THEN Rejected("restorePurchases", RestoreOptions, NativeError("E_SYNC_ERROR", "sync failed"))
  ELSE IF query.outcome = "resolved" THEN [query EXCEPT !.value = JUndefined] ELSE query
RestoreOutcome(syncAnswer, query) ==
  IF query.outcome = "resolved" THEN [query EXCEPT !.value = JUndefined] ELSE query

\* restorePurchases (index.ts)
RestorePurchases ==
  \E syncAnswer \in SyncAnswers, answer \in AvailableItemsAnswers :
    /\ Idle
    /\ SyncCall(syncAnswer) = <<>> => syncAnswer = JTrue
    /\ (os \notin {"ios", "android"} \/ ~HasGetAvailableItems) => answer = JNull
    /\ nativeLog' = SyncCall(syncAnswer) \o AvailableItemsCall(RestoreOptions, answer)
    /\ call' = RestoreOutcome(syncAnswer,
                 AvailablePurchasesResult("restorePurchases", RestoreOptions, answer))
    /\ UNCHANGED <<resolveVars, os, backend, isInitialized, store, transactionCache, eventVars, horizonVars, gatedVars, onsideVars>>

\* the wrappedListener of purchaseUpdatedListener: what the callback is given
wrappedListenerRaw(event) == normalizePurchasePlatformRaw(event)
wrappedListener(event) == normalizePurchasePlatform(event)

\* purchaseUpdatedListener (index.ts): emitter.addListener(PurchaseUpdated, wrappedListener)
PurchaseUpdatedListener ==
  \E l \in ListenerIds :
    /\ l \notin listeners
    /\ received[l] = <<>>
    /\ listeners' = listeners \cup {l}
    /\ UNCHANGED <<resolveVars, apiVars, horizonVars, emitted, received, gatedVars, onsideVars>>

\* emitterSubscription.remove()
RemoveSubscription ==
  \E l \in listeners :
    /\ listeners' = listeners \ {l}
    /\ UNCHANGED <<resolveVars, apiVars, horizonVars, emitted, received, gatedVars, onsideVars>>

\* one call of a registered wrappedListener: the callback's calls so far, and
\* the call made for this event
DeliverNewestFirst(calls, payload) ==
  <<[event |-> payload, purchase |-> wrappedListener(payload)]>> \o calls
Deliver(calls, payload) ==
  Append(calls, [event |-> payload, purchase |-> wrappedListener(payload)])

\* the native layer emits one purchase-updated event: the emitter calls every
\* registered wrappedListener with it
NativeEmit ==
  \E payload \in NativePurchases :
    /\ Len(emitted) < MaxEvents
    /\ emitted' = Append(emitted, payload)
    /\ received' = [l \in ListenerIds |->
         IF l \in listeners
           THEN Deliver(received[l], payload)
           ELSE received[l]]
    /\ UNCHANGED <<resolveVars, apiVars, horizonVars, listeners, gatedVars, onsideVars>>

\* the purchases normalizePurchasePlatform can be handed: the platform in any
\* case, a platform the library does not know, or no string at all
AnyPlatforms ==
  {"ios", "IOS", "iOS", "android", "Android", "ANDROID", "web", "Web", "",
   "#number", UNDEF, NULL}
AnyPurchases ==
  {[NativePurchase(id, plat) EXCEPT !.productId = sku] :
     id \in Tokens, plat \in AnyPlatforms, sku \in SKUs}

\* normalizePurchasePlatform (index.ts) applied to one purchase
NormalizePurchase ==
  \E purchase \in AnyPurchases :
    /\ Idle
    /\ call' = Resolved("normalizePurchasePlatform", purchase,
                        JObject(normalizePurchasePlatform(purchase)))
    /\ UNCHANGED <<os, backend, isInitialized, store, transactionCache, nativeLog,
                   eventVars, horizonVars, resolveVars, gatedVars, onsideVars>>

\* the caller takes the result of the call it awaited
Return ==
  /\ ~Idle
  /\ call' = NoCall
  /\ nativeLog' = <<>>
  /\ UNCHANGED <<resolveVars, os, backend, isInitialized, store, transactionCache, eventVars, horizonVars, gatedVars, onsideVars>>

\* ------------------------------------------------------- specification
\* ------------------------------------------ the Horizon module (Android)
Promises == 1..MaxCalls

\* a promise nobody holds yet, and the promise of a native call
FreePromise == [state |-> "free", code |-> UNDEF, op |-> "none", params |-> NoPayload]
PendingPromise(op, params) == [state |-> "pending", code |-> UNDEF, op |-> op, params |-> params]

\* the promise the next call is given
NextPromise == CHOOSE p \in Promises : promise[p].state = "free" /\ \A q \in 1..(p - 1) : promise[q].state # "free"
HasFreePromise == \E p \in Promises : promise[p].state = "free"

\* entries of the log
SentEvent(name, code) ==
  [kind |-> "event", name |-> name, code |-> code, promise |-> 0, value |-> JUndefined]
Settled(p, outcome, code) ==
  [kind |-> "settle", name |-> outcome, code |-> code, promise |-> p, value |-> JUndefined]
Launched(p) ==
  [kind |-> "launch", name |-> "launchBillingFlow", code |-> UNDEF, promise |-> p,
   value |-> JUndefined]
\* an event with its payload (a purchase item, or the product id of an error)
SentEventWith(name, code, payload) == [SentEvent(name, code) EXCEPT !.value = payload]
\* a promise resolved with a value
ResolvedWith(p, value) == [Settled(p, "resolved", UNDEF) EXCEPT !.value = value]

\* Promise.safeResolve / Promise.safeReject (PromiseUtils.kt): a promise that
\* was already consumed stays as it is
safeResolve(pm, p) ==
  IF pm[p].state = "pending" THEN [pm EXCEPT ![p].state = "resolved"] ELSE pm
safeReject(pm, p, code) ==
  IF pm[p].state = "pending" THEN [pm EXCEPT ![p].state = "rejected", ![p].code = code] ELSE pm

\* PromiseUtils.resolvePromisesForKey / rejectPromisesForKey over the list
\* registered under PROMISE_BUY_ITEM
InRegistry(p) == \E i \in 1..Len(promises) : promises[i] = p
StillPending(p) == promise[p].state = "pending"
resolvePromisesForKey(pm) ==
  [p \in Promises |-> IF InRegistry(p) THEN safeResolve(pm, p)[p] ELSE pm[p]]
rejectPromisesForKey(pm, code) ==
  [p \in Promises |-> IF InRegistry(p) THEN safeReject(pm, p, code)[p] ELSE pm[p]]
SettledLog(outcome, code) ==
  LET live == SelectSeq(promises, StillPending) IN
  [i \in 1..Len(live) |-> Settled(live[i], outcome, code)]
ResolvedLog(value) ==
  LET live == SelectSeq(promises, StillPending) IN
  [i \in 1..Len(live) |-> ResolvedWith(live[i], value)]

\* the params of getItemsByType, in the shape of a purchase payload
ItemsParams(type, skuArr) == [NoPayload EXCEPT !.type = type, !.skuArr = skuArr]

\* buyItemByType: a subscription needs one offer token per sku
OfferMismatchNever(params) == FALSE
OfferMismatch(params) ==
  params.type = "subs" /\ Len(params.skuArr) # Len(params.offerTokenArr)

\* buyItemByType: some sku has no cached product details
SkuNotFoundNever(params) == FALSE
SkuNotFound(params) == \E i \in 1..Len(params.skuArr) : params.skuArr[i] \notin cachedSkus
\* ... the first such sku, which the purchase-error event names
FirstMissingSku(params) ==
  LET i == CHOOSE i \in 1..Len(params.skuArr) :
             /\ params.skuArr[i] \notin cachedSkus
             /\ \A j \in 1..(i - 1) : params.skuArr[j] \in cachedSkus
  IN params.skuArr[i]

\* buyItemByType, the body run once the billing client is there
BuyItemCallback(pm, p, params) ==
  /\ promises' = Append(promises, p)
  /\ UNCHANGED cachedSkus
  /\ IF OfferMismatch(params)
       THEN /\ horizonLog' = horizonLog \o <<SentEvent("purchase-error", "E_SKU_OFFER_MISMATCH"),
                                             Settled(p, "rejected", "E_SKU_OFFER_MISMATCH")>>
            /\ promise' = safeReject(pm, p, "E_SKU_OFFER_MISMATCH")
            /\ UNCHANGED flows
     ELSE IF SkuNotFound(params)
       THEN /\ horizonLog' = horizonLog \o
                 <<SentEventWith("purchase-error", "E_SKU_NOT_FOUND",
                                 JObject(FirstMissingSku(params))),
                   Settled(p, "rejected", "E_SKU_NOT_FOUND")>>
            /\ promise' = safeReject(pm, p, "E_SKU_NOT_FOUND")
            /\ UNCHANGED flows
       ELSE \E launchOk \in BOOLEAN :
              IF launchOk
                THEN /\ horizonLog' = Append(horizonLog, Launched(p))
                     /\ promise' = pm
                     /\ flows' = flows + 1
                ELSE /\ horizonLog' = Append(horizonLog, Settled(p, "rejected", "E_SERVICE_ERROR"))
                     /\ promise' = safeReject(pm, p, "E_SERVICE_ERROR")
                     /\ UNCHANGED flows

\* getItemsByType, the body run once the billing client is there
GetItemsCallback(pm, p, params) ==
  /\ UNCHANGED <<cachedSkus, promises, flows>>
  /\ IF Len(params.skuArr) = 0
       THEN /\ promise' = safeReject(pm, p, "E_EMPTY_SKU_LIST")
            /\ horizonLog' = Append(horizonLog, Settled(p, "rejected", "E_EMPTY_SKU_LIST"))
            /\ callbacks' = callbacks \ {[promise |-> p, stage |-> "setup"]}
       ELSE /\ promise' = pm
            /\ callbacks' = (callbacks \ {[promise |-> p, stage |-> "setup"]})
                              \cup {[promise |-> p, stage |-> "query"]}
            /\ UNCHANGED horizonLog

\* the callback a call hands to ensureConnection / initBillingClient
RunCallback(pm, p) ==
  CASE pm[p].op = "buyItemByType" ->
         /\ BuyItemCallback(pm, p, pm[p].params)
         /\ callbacks' = callbacks \ {[promise |-> p, stage |-> "setup"]}
    [] pm[p].op = "getItemsByType" -> GetItemsCallback(pm, p, pm[p].params)
    [] OTHER ->
         /\ promise' = safeResolve(pm, p)
         /\ horizonLog' = Append(horizonLog, Settled(p, "resolved", UNDEF))
         /\ callbacks' = callbacks \ {[promise |-> p, stage |-> "setup"]}
         /\ UNCHANGED <<cachedSkus, promises, flows>>

\* initBillingClient: without a Quest App ID the call is rejected; with one the
\* client is built and the callback waits for onBillingSetupFinished
initBillingClient(pm, p, configured) ==
  IF ~configured
    THEN /\ promise' = safeReject(pm, p, "E_INIT_CONNECTION")
         /\ horizonLog' = Append(horizonLog, Settled(p, "rejected", "E_INIT_CONNECTION"))
         /\ UNCHANGED <<billingClientCache, cachedSkus, promises, callbacks, flows>>
    ELSE /\ billingClientCache' = "client"
         /\ callbacks' = callbacks \cup {[promise |-> p, stage |-> "setup"]}
         /\ promise' = pm
         /\ UNCHANGED <<cachedSkus, promises, flows, horizonLog>>

\* ensureConnection
ensureConnection(pm, p, configured) ==
  IF billingClientCache # "null"
    THEN RunCallback(pm, p) /\ UNCHANGED billingClientCache
    ELSE initBillingClient(pm, p, configured)

\* AsyncFunction("initConnection")
HorizonInitConnection ==
  \E configured \in BOOLEAN :
    /\ os = "android" /\ HasFreePromise
    /\ initBillingClient([promise EXCEPT ![NextPromise] = PendingPromise("initConnection", NoPayload)],
                         NextPromise, configured)
    /\ UNCHANGED <<resolveVars, apiVars, eventVars, gatedVars, onsideVars>>

\* AsyncFunction("endConnection")
HorizonEndConnection ==
  /\ os = "android" /\ HasFreePromise
  /\ billingClientCache' = "null"
  /\ cachedSkus' = {}
  /\ promise' = [promise EXCEPT ![NextPromise] =
                   [PendingPromise("endConnection", NoPayload) EXCEPT !.state = "resolved"]]
  /\ horizonLog' = Append(horizonLog, Settled(NextPromise, "resolved", UNDEF))
  /\ UNCHANGED <<promises, callbacks, flows>>
  /\ UNCHANGED <<resolveVars, apiVars, eventVars, gatedVars, onsideVars>>

\* AsyncFunction("getItemsByType")
HorizonGetItemsByType ==
  \E type \in {"in-app", "subs"}, skuArr \in {<<>>, <<"a.b">>}, configured \in BOOLEAN :
    /\ os = "android" /\ HasFreePromise
    /\ ensureConnection([promise EXCEPT ![NextPromise] =
                           PendingPromise("getItemsByType", ItemsParams(type, skuArr))],
                        NextPromise, configured)
    /\ UNCHANGED <<resolveVars, apiVars, eventVars, gatedVars, onsideVars>>

\* requestPurchase (index.ts) on Android, the purchase going to
\* AsyncFunction("buyItemByType") with the payload index.ts builds
HorizonRequestPurchase ==
  \E args \in RequestPurchaseArgs, hasActivity \in BOOLEAN, configured \in BOOLEAN :
    LET checks == requestPurchaseChecks(args)
        p == NextPromise
        pm == [promise EXCEPT ![p] = PendingPromise("buyItemByType", checks.payload)] IN
    /\ os = "android" /\ HasFreePromise
    /\ IF checks.early
         THEN /\ promise' = [promise EXCEPT ![p] =
                   [PendingPromise("requestPurchase", NoPayload) EXCEPT !.state = "rejected"]]
              /\ horizonLog' = Append(horizonLog, Settled(p, "rejected", UNDEF))
              /\ UNCHANGED <<billingClientCache, cachedSkus, promises, callbacks, flows>>
       ELSE IF ~hasActivity
         THEN /\ promise' = safeReject(pm, p, "MissingCurrentActivityException")
              /\ horizonLog' = Append(horizonLog, Settled(p, "rejected", "MissingCurrentActivityException"))
              /\ UNCHANGED <<billingClientCache, cachedSkus, promises, callbacks, flows>>
         ELSE ensureConnection(pm, p, configured)
    /\ UNCHANGED <<resolveVars, apiVars, eventVars, gatedVars, onsideVars>>

\* BillingClientStateListener.onBillingSetupFinished for one waiting callback
OnBillingSetupFinished ==
  \E cb \in callbacks, ok \in BOOLEAN :
    /\ cb.stage = "setup"
    /\ IF ok
         THEN RunCallback(promise, cb.promise)
         ELSE /\ promise' = safeReject(promise, cb.promise, "E_INIT_CONNECTION")
              /\ horizonLog' = Append(horizonLog, Settled(cb.promise, "rejected", "E_INIT_CONNECTION"))
              /\ callbacks' = callbacks \ {cb}
              /\ UNCHANGED <<cachedSkus, promises, flows>>
    /\ UNCHANGED <<resolveVars, billingClientCache, apiVars, eventVars, gatedVars, onsideVars>>

\* the response of queryProductDetailsAsync: an error, or the details of the
\* products the store knows among those asked for
OnProductDetailsResponse ==
  \E cb \in callbacks, ok \in BOOLEAN, known \in SUBSET SKUs :
    /\ cb.stage = "query"
    /\ callbacks' = callbacks \ {cb}
    /\ ~ok => known = {}
    /\ IF ok
         THEN /\ cachedSkus' = cachedSkus \cup {sku \in known :
                   \E i \in 1..Len(promise[cb.promise].params.skuArr) :
                     promise[cb.promise].params.skuArr[i] = sku}
              /\ promise' = safeResolve(promise, cb.promise)
              /\ horizonLog' = Append(horizonLog, Settled(cb.promise, "resolved", UNDEF))
         ELSE /\ promise' = safeReject(promise, cb.promise, "E_QUERY_PRODUCT")
              /\ horizonLog' = Append(horizonLog, Settled(cb.promise, "rejected", "E_QUERY_PRODUCT"))
              /\ UNCHANGED cachedSkus
    /\ UNCHANGED <<resolveVars, billingClientCache, promises, flows, apiVars, eventVars, gatedVars, onsideVars>>

\* AsyncFunction("buyItemByType") called with params of its own
BuySkuArrs == {<<"a.b">>, <<"a.c">>, <<"a.b", "a.c">>}
BuyParams ==
  UNION {{[NoPayload EXCEPT !.type = type, !.skuArr = skuArr,
                            !.offerTokenArr = [i \in 1..offers |-> "offer"]] :
            type \in {"in-app", "subs"}, offers \in {0, Len(skuArr)}} :
         skuArr \in BuySkuArrs}

HorizonBuyItemByType ==
  \E params \in BuyParams, hasActivity \in BOOLEAN, configured \in BOOLEAN :
    LET p == NextPromise
        pm == [promise EXCEPT ![p] = PendingPromise("buyItemByType", params)] IN
    /\ os = "android" /\ HasFreePromise
    /\ IF ~hasActivity
         THEN /\ promise' = safeReject(pm, p, "MissingCurrentActivityException")
              /\ horizonLog' = Append(horizonLog, Settled(p, "rejected", "MissingCurrentActivityException"))
              /\ UNCHANGED <<billingClientCache, cachedSkus, promises, callbacks, flows>>
         ELSE ensureConnection(pm, p, configured)
    /\ UNCHANGED <<resolveVars, apiVars, eventVars, gatedVars, onsideVars>>

\* the purchases an update of the billing service carries: null, or a list
PurchaseLists == {<<>>, <<"tok1">>, <<"tok1", "tok2">>, <<"tok2", "tok1">>}
UpdatePurchases == {JNull} \cup {JArray(l) : l \in PurchaseLists}

\* the map sent and resolved with when the purchases are null
NullPurchasesResult == JObject("The purchases are null")

\* onPurchasesUpdated, OK: one purchase-updated event per purchase, in list
\* order (one for null purchases)
UpdateEvents(purchases) ==
  IF purchases = JNull
    THEN <<SentEventWith("purchase-updated", UNDEF, NullPurchasesResult)>>
    ELSE [i \in 1..Len(purchases.items) |->
            SentEventWith("purchase-updated", UNDEF, JObject(purchases.items[i]))]

\* ... and the value the promises are resolved with
UpdateValue(purchases) == IF purchases = JNull THEN NullPurchasesResult ELSE purchases

SettleThenAnnounce(events, settles) == settles \o events
\* onPurchasesUpdated sends its events, then settles the promises
AnnounceThenSettle(events, settles) == events \o settles

\* onPurchasesUpdated: the billing service reports on a launched flow
OnPurchasesUpdated ==
  \E responseCode \in {"OK", "USER_CANCELED"}, purchases \in UpdatePurchases :
    /\ flows > 0
    /\ flows' = flows - 1
    /\ promises' = <<>>
    /\ IF responseCode # "OK"
         THEN /\ horizonLog' = horizonLog \o
                   AnnounceThenSettle(<<SentEvent("purchase-error", "E_USER_CANCELLED")>>,
                                      SettledLog("rejected", "E_USER_CANCELLED"))
              /\ promise' = rejectPromisesForKey(promise, "E_USER_CANCELLED")
         ELSE /\ horizonLog' = horizonLog \o
                   AnnounceThenSettle(UpdateEvents(purchases),
                                      ResolvedLog(UpdateValue(purchases)))
              /\ promise' = resolvePromisesForKey(promise)
    /\ UNCHANGED <<resolveVars, billingClientCache, cachedSkus, callbacks, apiVars, eventVars, gatedVars, onsideVars>>

\* ------------------------------------------- native bridge resolution
\* candidates (ExpoIapModule.ts): the specialized backend first, then the
\* general one
candidates == <<"ExpoIapOnside", "ExpoIap">>
CandidateNames == {candidates[i] : i \in 1..Len(candidates)}

\* new UnavailabilityError(moduleName, propertyName) of expo-modules-core
UnavailabilityError(moduleName, propertyName) ==
  [class |-> "UnavailabilityError", moduleName |-> moduleName, message |-> <<propertyName>>]

\* new Error(message); a message is the sequence of its fragments
LoadError(message) == [class |-> "Error", moduleName |-> UNDEF, message |-> message]

\* a thrown value that is no Error object
ThrownValue == [class |-> "#value", moduleName |-> UNDEF, message |-> <<>>]

NoLoadError == [class |-> "", moduleName |-> UNDEF, message |-> <<>>]

\* `Cannot find native module '${moduleName}'`
CannotFind(moduleName) == "Cannot find native module '" \o moduleName \o "'"

\* String.prototype.includes on a message of fragments
Includes(message, fragment) == \E i \in 1..Len(message) : message[i] = fragment

\* what requireNativeModule(name) can throw
LoadErrors ==
  {UnavailabilityError(n, "requireNativeModule") : n \in CandidateNames}
    \cup {LoadError(<<CannotFind(n)>>) : n \in CandidateNames}
    \cup {LoadError(<<"Error:", CannotFind("ExpoIapOnside"), "(not linked)">>),
          LoadError(<<"native module crashed">>),
          ThrownValue}

\* requireNativeModule(name) returns the module: an object whose constant
\* IS_ONSIDE_KIT_INSTALLED_IOS is true, false or not defined
Loaded(kit) == [kind |-> "module", kit |-> kit, error |-> NoLoadError]
Throws(error) == [kind |-> "throw", kit |-> UNDEF, error |-> error]

LoadOutcomes(name) ==
  {Throws(e) : e \in LoadErrors}
    \cup (IF name = "ExpoIapOnside"
            THEN {Loaded(k) : k \in {"true", "false", UNDEF}}
            ELSE {Loaded(UNDEF)})

\* InstalledFromOnside: boolean | null
InstalledValues == {NULL, "true", "false"}
Truthy(v) == v = "true"

isMissingModuleErrorAnyError(error, moduleName) == TRUE
\* isMissingModuleError (ExpoIapModule.ts)
isMissingModuleError(error, moduleName) ==
  IF error.class = "UnavailabilityError" THEN TRUE
  ELSE IF error.class = "Error" THEN Includes(error.message, CannotFind(moduleName))
  ELSE FALSE

Unresolved == [status |-> "unresolved", name |-> UNDEF, error |-> NoLoadError, tried |-> <<>>]
Accepted(name, tried) == [status |-> "resolved", name |-> name, error |-> NoLoadError, tried |-> tried]
Aborted(error, tried) == [status |-> "failed", name |-> UNDEF, error |-> error, tried |-> tried]

OnsideSkippedAlways(module, installed) == TRUE
\* the loaded Onside module is passed over:
\* module?.IS_ONSIDE_KIT_INSTALLED_IOS === false || !installedFromOnside
OnsideSkipped(module, installed) == module.kit = "false" \/ ~Truthy(installed)

\* resolveNativeModule: the loop over the candidates, from candidate i on
RECURSIVE ResolveFrom(_, _, _, _)
ResolveFrom(i, modules, installed, tried) ==
  IF i > Len(candidates)
    THEN Aborted(UnavailabilityError("expo-iap", "ExpoIap native module is unavailable"), tried)
    ELSE LET name == candidates[i]
             out == modules[name]
             seen == Append(tried, name)
         IN IF out.kind = "module"
              THEN IF name = "ExpoIapOnside" /\ OnsideSkipped(out, installed)
                     THEN ResolveFrom(i + 1, modules, installed, seen)
                     ELSE Accepted(name, seen)
              ELSE IF name = "ExpoIapOnside" /\ isMissingModuleError(out.error, name)
                     THEN ResolveFrom(i + 1, modules, installed, seen)
                     ELSE Aborted(out.error, seen)

resolveNativeModule(modules, installed) == ResolveFrom(1, modules, installed, <<>>)

\* export const USING_ONSIDE_SDK
USING_ONSIDE_SDK == resolution.name = "ExpoIapOnside"

ModuleNeverEvaluated == FALSE
\* the module body of ExpoIapModule.ts has run: its bindings are set
ModuleEvaluated == resolution.status # "unresolved"

\* the first import of ExpoIapModule.ts evaluates the module body, once
ResolveNativeModule ==
  /\ ~ModuleEvaluated
  /\ resolution' = resolveNativeModule(nativeModules, installedFromOnside)
  /\ UNCHANGED <<installedFromOnside, nativeModules, apiVars, eventVars, horizonVars, gatedVars, onsideVars>>

\* checkInstallationFromOnside (onside/index.ts): the marketplace check answers
CheckInstallationFromOnside ==
  \E onsideInstallation \in InstalledValues :
    /\ installedFromOnside' = onsideInstallation
    /\ UNCHANGED <<nativeModules, resolution, apiVars, eventVars, horizonVars, gatedVars, onsideVars>>

\* what requireNativeModule would do for a candidate changes
NativeModuleChanges ==
  \E name \in CandidateNames : \E out \in LoadOutcomes(name) :
    /\ out # nativeModules[name]
    /\ nativeModules' = [nativeModules EXCEPT ![name] = out]
    /\ UNCHANGED <<installedFromOnside, resolution, apiVars, eventVars, horizonVars, gatedVars, onsideVars>>

\* ------------------------------------------------------- error mapping
\* the canonical codes the bridge's ERROR_CODES map may have an entry for
TableKeys == {"already-owned", "billing-unavailable", "unknown"}

\* the native codes of the map: strings, and numbers written "#3"
NativeCodes == {"ALREADY_OWNED", "#3", "NATIVE_UNKNOWN"}

\* a key the map has no entry for
ABSENT == "#absent"

\* ExpoIapModule.ERROR_CODES: not defined, or a map from canonical code to
\* native code
NoTable == [defined |-> FALSE, map |-> [k \in TableKeys |-> ABSENT]]
EmptyTable == [defined |-> TRUE, map |-> [k \in TableKeys |-> ABSENT]]
BridgeErrorCodes ==
  {NoTable} \cup {[defined |-> TRUE, map |-> t] : t \in [TableKeys -> NativeCodes \cup {ABSENT}]}

\* the codes looked up
PlatformCodes == NativeCodes \cup {"E_STRANGE"}

NativeErrorCodesAsIs(errorCodes) == errorCodes
\* NATIVE_ERROR_CODES = ExpoIapModule.ERROR_CODES || {}
NATIVE_ERROR_CODES(errorCodes) ==
  IF ~errorCodes.defined THEN EmptyTable ELSE errorCodes

\* the entries of the table whose native code is `code`
MatchingKeys(table, code) == {k \in TableKeys : table.map[k] = code}

\* ErrorCodeUtils.fromPlatformCode: the enum member the table maps to the
\* code, or Unknown; a table that is no object makes the lookup throw
fromPlatformCode(table, code, platform) ==
  IF ~table.defined THEN THROWS
  ELSE IF MatchingKeys(table, code) # {}
    THEN CHOOSE k \in MatchingKeys(table, code) : TRUE
    ELSE "unknown"

\* a lookup of a native code, with the bridge exposing errorCodes
FromPlatformCode ==
  \E errorCodes \in BridgeErrorCodes, code \in PlatformCodes, platform \in {"ios", "android"} :
    /\ Idle
    /\ call' = Resolved("fromPlatformCode",
                        [errorCodes |-> errorCodes, code |-> code, platform |-> platform],
                        fromPlatformCode(NATIVE_ERROR_CODES(errorCodes), code, platform))
    /\ UNCHANGED <<os, backend, isInitialized, store, transactionCache, nativeLog,
                   eventVars, horizonVars, resolveVars, gatedVars, onsideVars>>

\* ------------------------------------------ platform-exclusive listeners
Callbacks == {"callback1", "callback2"}

\* the registration functions, the platform each is for and the event it
\* listens to
ExclusiveFns == {"promotedProductListenerIOS", "userChoiceBillingListenerAndroid"}
PlatformOf(fn) == IF fn = "promotedProductListenerIOS" THEN "ios" ELSE "android"
EventOf(fn) ==
  IF fn = "promotedProductListenerIOS" THEN "promoted-product-ios"
  ELSE "user-choice-billing-android"
ExclusiveEvents == {EventOf(fn) : fn \in ExclusiveFns}

\* {remove: () => {}}
NoopSubscription(fn, listener) == [fn |-> fn, listener |-> listener, kind |-> "noop"]
\* the subscription emitter.addListener returns
EmitterSubscription(fn, listener) == [fn |-> fn, listener |-> listener, kind |-> "emitter"]

NeverOffPlatform(fn) == FALSE
\* Platform.OS !== 'ios' / Platform.OS !== 'android'
OffPlatform(fn) == os # PlatformOf(fn)

\* promotedProductListenerIOS, userChoiceBillingListenerAndroid (index.ts)
ExclusiveListener ==
  \E fn \in ExclusiveFns, listener \in Callbacks :
    /\ Idle
    /\ IF OffPlatform(fn)
         THEN /\ call' = Resolved(fn, listener, NoopSubscription(fn, listener))
              /\ subscriptions' = subscriptions \cup {NoopSubscription(fn, listener)}
              /\ UNCHANGED exclusiveListeners
         ELSE /\ call' = Resolved(fn, listener, EmitterSubscription(fn, listener))
              /\ subscriptions' = subscriptions \cup {EmitterSubscription(fn, listener)}
              /\ exclusiveListeners' =
                   exclusiveListeners \cup {[event |-> EventOf(fn), listener |-> listener]}
    /\ UNCHANGED <<os, backend, isInitialized, store, transactionCache, nativeLog, invoked,
                   eventVars, horizonVars, resolveVars, onsideVars>>

\* subscription.remove()
RemoveExclusive ==
  \E sub \in subscriptions :
    /\ subscriptions' = subscriptions \ {sub}
    /\ IF sub.kind = "noop"
         THEN UNCHANGED exclusiveListeners
         ELSE exclusiveListeners' =
                exclusiveListeners \ {[event |-> EventOf(sub.fn), listener |-> sub.listener]}
    /\ UNCHANGED <<invoked, apiVars, eventVars, horizonVars, resolveVars, onsideVars>>

\* the emitter delivers a platform-exclusive event to its listeners
EmitExclusive ==
  \E event \in ExclusiveEvents :
    /\ invoked' = invoked \cup {l \in exclusiveListeners : l.event = event}
    /\ invoked' # invoked
    /\ UNCHANGED <<exclusiveListeners, subscriptions, apiVars, eventVars, horizonVars, resolveVars, onsideVars>>

\* ------------------------------------------- the Onside module (iOS)
\* the native restorePurchases calls
Restores == 1..MaxCalls
NIL == 0

IdleRestore == [stage |-> "idle", resumes |-> 0, value |-> "none", notified |-> FALSE]

OnsideActive == os = "ios" /\ backend = "ExpoIapOnside"

\* continuation.resume(...): a continuation counts its resumptions (a second
\* one is a fatal misuse) and keeps the first value
Resume(c, value) ==
  [c EXCEPT !.resumes = IF c.resumes < 2 THEN c.resumes + 1 ELSE 2,
            !.value = IF c.resumes = 0 THEN value ELSE c.value]

\* restoreContinuation?.resume(...): resumes the stored continuation, if any
ResumeStored(value) ==
  IF restoreContinuation = NIL
    THEN restores
    ELSE [restores EXCEPT ![restoreContinuation] = Resume(restores[restoreContinuation], value)]

\* the completion handler of restoreCompletedTransactions resumes the
\* continuation it captured
CompletionResume(r, value) ==
  [restores EXCEPT ![r] = [Resume(restores[r], value) EXCEPT !.stage = "completing"]]

\* `if self.restoreContinuation != nil { throw OnsideBridgeError.restoreInProgress }`
RestoreInProgress == restoreContinuation # NIL

\* restorePurchases, up to the check on the main actor
OnsideRestoreCheck ==
  \E r \in Restores :
    /\ OnsideActive
    /\ restores[r].stage = "idle"
    /\ \A q \in Restores : q < r => restores[q].stage # "idle"
    /\ isInitialized' = TRUE
    /\ restores' = [restores EXCEPT ![r].stage =
                      IF RestoreInProgress THEN "rejected" ELSE "checked"]
    /\ UNCHANGED <<os, backend, store, transactionCache, call, nativeLog,
                   restoreContinuation, fetchContinuation, fetchRequest, fetches, delivered,
                   eventVars, horizonVars, resolveVars, gatedVars>>

\* restorePurchases: the task that stores the continuation and starts the
\* store's restore
OnsideRestoreStart ==
  \E r \in Restores :
    /\ restores[r].stage = "checked"
    /\ restoreContinuation' = r
    /\ restores' = [restores EXCEPT ![r].stage = "started"]
    /\ UNCHANGED <<apiVars, fetchContinuation, fetchRequest, fetches, delivered,
                   eventVars, horizonVars, resolveVars, gatedVars>>

\* the store calls the completion handler of restoreCompletedTransactions
OnsideRestoreCompletion ==
  \E r \in Restores, value \in {"true", "error"} :
    /\ restores[r].stage = "started"
    /\ restores' = CompletionResume(r, value)
    /\ UNCHANGED <<apiVars, restoreContinuation, fetchContinuation, fetchRequest, fetches,
                   delivered, eventVars, horizonVars, resolveVars, gatedVars>>

\* ... and the task it spawned sets restoreContinuation to nil
OnsideRestoreClear ==
  \E r \in Restores :
    /\ restores[r].stage = "completing"
    /\ restoreContinuation' = NIL
    /\ restores' = [restores EXCEPT ![r].stage = "done"]
    /\ UNCHANGED <<apiVars, fetchContinuation, fetchRequest, fetches, delivered,
                   eventVars, horizonVars, resolveVars, gatedVars>>

\* transactionObserver.onRestoreFinished / onRestoreFailed: the store tells the
\* registered observer, once per restore, how the restore ended
OnsideObserverRestore ==
  \E r \in Restores, value \in {"true", "error"} :
    /\ isInitialized
    /\ restores[r].stage \in {"started", "completing", "done"}
    /\ ~restores[r].notified
    /\ restores' = [ResumeStored(value) EXCEPT ![r].notified = TRUE]
    /\ restoreContinuation' = NIL
    /\ UNCHANGED <<apiVars, fetchContinuation, fetchRequest, fetches, delivered,
                   eventVars, horizonVars, resolveVars, gatedVars>>

\* cleanup(): endConnection and OnDestroy
OnsideCleanup ==
  /\ OnsideActive
  /\ isInitialized' = FALSE
  /\ transactionCache' = {}
  /\ restores' = ResumeStored("false")
  /\ restoreContinuation' = NIL
  /\ UNCHANGED <<os, backend, store, call, nativeLog, fetchContinuation, fetchRequest,
                 fetches, delivered, eventVars, horizonVars, resolveVars, gatedVars>>

\* initConnection: ensureObserverRegistered
OnsideInitConnection ==
  /\ OnsideActive
  /\ ~isInitialized
  /\ isInitialized' = TRUE
  /\ UNCHANGED <<os, backend, store, transactionCache, call, nativeLog, onsideVars,
                 eventVars, horizonVars, resolveVars, gatedVars>>

\* ---------------------------------- the Onside product fetcher (iOS)
\* the calls of productFetcher.fetch, each with its own products request
Fetches == 1..MaxCalls

\* the callers of productFetcher.fetch
FetchCallers == {"fetchProducts", "ensureProductAvailable"}

IdleFetch ==
  [stage |-> "idle", by |-> "none", identifiers |-> {}, resumes |-> 0, value |-> "none",
   from |-> NIL, request |-> "none", delegate |-> FALSE]

\* continuation?.resume(returning: response) / resume(throwing:), then
\* cleanup(), in the delegate callback of request q: the stored continuation
\* gets q's answer; the stored request loses its delegate and is stopped
FetcherCallback(q, value) ==
  [f \in Fetches |->
     LET resumed == IF f = fetchContinuation
                      THEN [fetches[f] EXCEPT
                              !.resumes = IF @ < 2 THEN @ + 1 ELSE 2,
                              !.value = IF fetches[f].resumes = 0 THEN value ELSE @,
                              !.from = IF fetches[f].resumes = 0 THEN q ELSE @]
                      ELSE fetches[f]
         answered == IF f = q /\ value # "none"
                       THEN [resumed EXCEPT !.request = "answered"] ELSE resumed
     IN IF f = fetchRequest
          THEN [answered EXCEPT !.request = "stopped", !.delegate = FALSE]
          ELSE answered]

\* OnsideProductFetcher.fetch(identifiers:), called by fetchProducts and by
\* ensureProductAvailable
OnsideFetch ==
  \E f \in Fetches, by \in FetchCallers, identifiers \in SUBSET SKUs :
    /\ OnsideActive
    /\ fetches[f].stage = "idle"
    /\ \A q \in Fetches : q < f => fetches[q].stage # "idle"
    /\ by = "ensureProductAvailable" => Cardinality(identifiers) = 1
    /\ IF identifiers = {}
         THEN /\ fetches' = [fetches EXCEPT ![f] =
                              [IdleFetch EXCEPT !.stage = "emptySkuList", !.by = by]]
              /\ UNCHANGED <<fetchRequest, fetchContinuation>>
         ELSE /\ fetches' = [fetches EXCEPT ![f] =
                              [IdleFetch EXCEPT !.stage = "awaiting", !.by = by,
                                                !.identifiers = identifiers,
                                                !.request = "running", !.delegate = TRUE]]
              /\ fetchRequest' = f
              /\ fetchContinuation' = f
    /\ isInitialized' = TRUE
    /\ UNCHANGED <<os, backend, store, transactionCache, call, nativeLog,
                   restoreContinuation, restores, delivered,
                   eventVars, horizonVars, resolveVars, gatedVars>>

\* onsideProductsRequest(_:didReceive:) and ...(_:didFailWithError:)
OnsideFetchAnswered ==
  \E q \in Fetches, value \in {"response", "error"} :
    /\ fetches[q].request = "running"
    /\ fetches[q].delegate
    /\ fetches' = FetcherCallback(q, value)
    /\ fetchRequest' = NIL
    /\ fetchContinuation' = NIL
    /\ UNCHANGED <<apiVars, restoreContinuation, restores, delivered,
                   eventVars, horizonVars, resolveVars, gatedVars>>

\* onsideProductsRequestDidFinish: cleanup() once more
OnsideFetchDidFinish ==
  \E q \in Fetches :
    /\ fetches[q].request = "answered"
    /\ fetches[q].delegate
    /\ fetches' = [FetcherCallback(q, "none") EXCEPT ![q].delegate = FALSE]
    /\ fetchRequest' = NIL
    /\ fetchContinuation' = NIL
    /\ UNCHANGED <<apiVars, restoreContinuation, restores, delivered,
                   eventVars, horizonVars, resolveVars, gatedVars>>

\* ------------------------------- the Onside transaction observer (iOS)
\* OnsidePaymentTransactionState
TransactionStates == {"purchased", "restored", "failed", "purchasing"}

\* handle(transaction:): the states announced as purchase-updated events
SendsPurchaseUpdated(state) == state \in {"purchased", "restored"}

\* transactionObserver.onTransactionsUpdated: the store hands an unfinished
\* transaction to the registered observer, which caches it and announces it
OnsideTransactionsUpdated ==
  \E id \in Tokens, state \in TransactionStates :
    /\ OnsideActive
    /\ isInitialized
    /\ store[id] # "finished"
    /\ store' = [store EXCEPT ![id] = "pending"]
    /\ transactionCache' = transactionCache \cup {id}
    /\ delivered' = IF SendsPurchaseUpdated(state) THEN delivered \cup {id} ELSE delivered
    /\ UNCHANGED <<os, backend, isInitialized, call, nativeLog,
                   restoreContinuation, restores, fetchContinuation, fetchRequest, fetches,
                   eventVars, horizonVars, resolveVars, gatedVars>>

Init ==
  /\ os \in Platforms
  /\ backend \in (IF os = "ios" THEN Backends ELSE {"ExpoIap"})
  /\ isInitialized = FALSE
  /\ store = [t \in Tokens |-> "absent"]
  /\ transactionCache = {}
  /\ call = NoCall
  /\ nativeLog = <<>>
  /\ listeners = {}
  /\ emitted = <<>>
  /\ received = [l \in ListenerIds |-> <<>>]
  /\ billingClientCache = "null"
  /\ cachedSkus = {}
  /\ promises = <<>>
  /\ promise = [p \in Promises |-> FreePromise]
  /\ callbacks = {}
  /\ flows = 0
  /\ horizonLog = <<>>
  /\ installedFromOnside = NULL
  /\ nativeModules = [n \in CandidateNames |-> Loaded(IF n = "ExpoIapOnside" THEN "true" ELSE UNDEF)]
  /\ resolution = Unresolved
  /\ exclusiveListeners = {}
  /\ subscriptions = {}
  /\ invoked = {}
  /\ restoreContinuation = NIL
  /\ restores = [r \in Restores |-> IdleRestore]
  /\ fetchContinuation = NIL
  /\ fetchRequest = NIL
  /\ fetches = [f \in Fetches |-> IdleFetch]
  /\ delivered = {}

Next ==
  \/ RequestPurchase
  \/ FinishTransaction
  \/ StoreDeliver
  \/ Return

Spec == Init /\ [][Next]_vars

\* the product catalogue: fetchProducts alone
NextFetch ==
  \/ FetchProducts
  \/ Return

SpecFetch == Init /\ [][NextFetch]_vars

\* purchases pushed as events and pulled by queries
NextEvents ==
  \/ PurchaseUpdatedListener
  \/ RemoveSubscription
  \/ NativeEmit
  \/ GetAvailablePurchases
  \/ RestorePurchases
  \/ Return

SpecEvents == Init /\ [][NextEvents]_vars

\* every function of the unified API, called one after the other
NextApi ==
  \/ RequestPurchase
  \/ FinishTransaction
  \/ FetchProductsBrief
  \/ GetAvailablePurchases
  \/ RestorePurchases
  \/ Return

SpecApi == Init /\ [][NextApi]_vars

\* the purchase normalizer on its own
NextNormalize == NormalizePurchase \/ Return

SpecNormalize == Init /\ [][NextNormalize]_vars

\* purchases on Android through the Horizon module
NextAndroid ==
  \/ HorizonInitConnection
  \/ HorizonEndConnection
  \/ HorizonGetItemsByType
  \/ HorizonRequestPurchase
  \/ OnBillingSetupFinished
  \/ OnProductDetailsResponse
  \/ OnPurchasesUpdated

SpecAndroid == Init /\ [][NextAndroid]_vars

\* the Horizon module called directly
NextHorizon ==
  \/ HorizonInitConnection
  \/ HorizonEndConnection
  \/ HorizonGetItemsByType
  \/ HorizonBuyItemByType
  \/ OnBillingSetupFinished
  \/ OnProductDetailsResponse
  \/ OnPurchasesUpdated

SpecHorizon == Init /\ [][NextHorizon]_vars

\* the native bridge adapter
NextResolve ==
  \/ ResolveNativeModule
  \/ CheckInstallationFromOnside
  \/ NativeModuleChanges

SpecResolve == Init /\ [][NextResolve]_vars

\* the error mapper
NextErrors == FromPlatformCode \/ Return

SpecErrors == Init /\ [][NextErrors]_vars

\* the platform-exclusive listeners
NextExclusive ==
  \/ ExclusiveListener
  \/ RemoveExclusive
  \/ EmitExclusive
  \/ Return

SpecExclusive == Init /\ [][NextExclusive]_vars

\* the Onside module: restorePurchases against the observer and cleanup
NextOnsideRestore ==
  \/ OnsideRestoreCheck
  \/ OnsideRestoreStart
  \/ OnsideRestoreCompletion
  \/ OnsideRestoreClear
  \/ OnsideObserverRestore
  \/ OnsideCleanup
  \/ OnsideInitConnection

SpecOnsideRestore == Init /\ [][NextOnsideRestore]_vars

\* the Onside module: overlapping product fetches
NextOnsideFetch ==
  \/ OnsideFetch
  \/ OnsideFetchAnswered
  \/ OnsideFetchDidFinish

SpecOnsideFetch == Init /\ [][NextOnsideFetch]_vars

\* the Onside module: delivered transactions, finishTransaction and cleanup
NextOnsideFinish ==
  \/ OnsideTransactionsUpdated
  \/ FinishTransaction
  \/ OnsideCleanup
  \/ OnsideInitConnection
  \/ Return

SpecOnsideFinish == Init /\ [][NextOnsideFinish]_vars

\* ================================================================ claims

IsPending(t) == store[t] = "pending" \/ t \in transactionCache
IsFinished(t) == store[t] = "finished"
FinishCall == call.fn = "finishTransaction"

\* C1: a finishTransaction call that succeeds has issued exactly one native
\* completion operation: on iOS the native finishTransaction whatever
\* isConsumable is; on Android consumePurchaseAndroid when isConsumable is true
\* and acknowledgePurchaseAndroid when it is false or omitted.
C1_OneCompletionOp ==
  (FinishCall /\ call.outcome = "resolved") =>
    /\ os \in {"ios", "android"}
    /\ Len(nativeLog) = 1
    /\ os = "ios" => nativeLog[1].op = "finishTransaction"
    /\ os = "android" =>
         nativeLog[1].op = (IF call.args.isConsumable = "true"
                              THEN "consumePurchaseAndroid"
                              ELSE "acknowledgePurchaseAndroid")

C1_Witness ==
  /\ FinishCall /\ call.outcome = "resolved" /\ os = "android"
  /\ call.args.isConsumable = "true"
  /\ nativeLog = <<NativeCall("consumePurchaseAndroid", call.args.purchase.purchaseToken, UNDEF)>>

\* C2: on Android, finishTransaction for a purchase whose purchaseToken is
\* missing (undefined, null) or empty rejects with a DeveloperError naming the
\* purchase's productId, whatever isConsumable is, and calls neither consume
\* nor acknowledge.
C2_MissingTokenRejects ==
  (FinishCall /\ os = "android"
     /\ call.args.purchase.purchaseToken \in {UNDEF, NULL, ""}) =>
    /\ call.outcome = "rejected"
    /\ call.error.code = "developer-error"
    /\ call.error.productId = call.args.purchase.productId
    /\ nativeLog = <<>>

C2_Witness ==
  /\ FinishCall /\ os = "android"
  /\ call.args.purchase.purchaseToken = ""
  /\ call.args.isConsumable = "true"
  /\ call.outcome = "rejected"

\* C3: a purchase that finishTransaction has finished stays finished and is
\* never again pending (unfinished in the store, or held in the backend's
\* cache of unfinished transactions), whatever operation runs next.
C3_FinishedIsFinal ==
  [][\A t \in Tokens : IsFinished(t) => (IsFinished(t)' /\ ~IsPending(t)')]_vars

C3_Witness ==
  \E t \in Tokens :
    /\ IsFinished(t)
    /\ call.fn = "requestPurchase"

RequestCall == call.fn = "requestPurchase"

\* the request carries no usable request.ios.sku
NoIosSku(args) == ~args.hasRequest \/ ~args.ios.present \/ args.ios.sku \in {UNDEF, NULL, ""}
\* the request carries no non-empty request.android.skus array
NoAndroidSkus(args) ==
  \/ ~args.hasRequest
  \/ ~args.android.present
  \/ args.android.skus.tag # "array"
  \/ args.android.skus.items = <<>>

\* C4: requestPurchase on an unsupported platform, on iOS without
\* request.ios.sku, or on Android without a non-empty request.android.skus
\* array is rejected with an error and has made no native call; it is never
\* resolved.
C4_MalformedRequestThrows ==
  (RequestCall /\ (\/ os \notin {"ios", "android"}
                   \/ os = "ios" /\ NoIosSku(call.args)
                   \/ os = "android" /\ NoAndroidSkus(call.args))) =>
    /\ call.outcome = "rejected"
    /\ call.error.name \in {"Error", "TypeError"}
    /\ nativeLog = <<>>

C4_Witness ==
  /\ RequestCall /\ os = "android"
  /\ call.args.hasRequest /\ call.args.android.present
  /\ call.args.android.skus = JArray(<<>>)
  /\ call.outcome = "rejected"

\* C5: on iOS, when the native purchase call answers null, requestPurchase
\* resolves to [] for a request of type 'subs' and to null for a request of
\* type 'in-app'.
C5_NullAnswerByType ==
  (RequestCall /\ os = "ios" /\ Len(nativeLog) = 1 /\ nativeLog[1].answer = JNull) =>
    /\ call.args.type = "subs" => call.outcome = "resolved" /\ call.value = JArray(<<>>)
    /\ call.args.type = "in-app" => call.outcome = "resolved" /\ call.value = JNull

C5_Witness ==
  /\ RequestCall /\ os = "ios" /\ Len(nativeLog) = 1 /\ nativeLog[1].answer = JNull
  /\ call.args.type = "subs" /\ call.value = JArray(<<>>)

FetchCall == call.fn = "fetchProducts"

\* the product type guard of the running platform
PassesPlatformGuard(item) == item # NullItem /\ item.platform = os
\* the item's id is one of the requested skus
IsRequested(item, skus) == \E i \in 1..Len(skus) : skus[i] = item.id

\* C7: fetchProducts whose skus argument is missing, not an array, or empty
\* rejects with an error coded EmptySkuList and makes no native call.
C7_EmptySkuList ==
  (FetchCall /\ (call.args.skus.tag # "array" \/ call.args.skus.items = <<>>)) =>
    /\ call.outcome = "rejected"
    /\ call.error.code = "empty-sku-list"
    /\ nativeLog = <<>>

C7_Witness ==
  /\ FetchCall /\ call.args.skus = JArray(<<>>) /\ call.args.type = "in-app"
  /\ call.outcome = "rejected"

\* C8: every item fetchProducts returns passes the product type guard of the
\* running platform and has an id among the requested skus, and every item of
\* the native answer that fails either test is absent from the result.
C8_DoubleFilter ==
  (FetchCall /\ call.outcome = "resolved") =>
    LET skus == call.args.skus.items
        raw == nativeLog[1].answer.items
        result == call.value.items
    IN /\ \A i \in 1..Len(result) :
            PassesPlatformGuard(result[i]) /\ IsRequested(result[i], skus)
       /\ \A j \in 1..Len(raw) :
            ~(PassesPlatformGuard(raw[j]) /\ IsRequested(raw[j], skus)) =>
              \A i \in 1..Len(result) : result[i] # raw[j]

C8_Witness ==
  /\ FetchCall /\ call.outcome = "resolved" /\ os = "ios"
  /\ Len(nativeLog[1].answer.items) = 2
  /\ nativeLog[1].answer.items[1].id = "x.y"
  /\ nativeLog[1].answer.items[1].platform = "ios"
  /\ Len(call.value.items) = 1

\* C9: fetchProducts called with type 'in-app' returns only items whose type
\* is 'in-app', and called with type 'subs' only items whose type is 'subs'.
C9_OnlyRequestedType ==
  (FetchCall /\ call.outcome = "resolved" /\ call.args.type \in {"in-app", "subs"}) =>
    \A i \in 1..Len(call.value.items) : call.value.items[i].type = call.args.type

\* a requestPurchase of type 'subs' that reached the native side with no
\* offer tokens
SubsWithoutOffers(p) ==
  /\ promise[p].op = "buyItemByType"
  /\ promise[p].params.type = "subs"
  /\ Len(promise[p].params.offerTokenArr) = 0

LaunchedFor(p) == \E i \in 1..Len(horizonLog) : horizonLog[i] = Launched(p)

AvailableCall == call.fn = "getAvailablePurchases"

\* the native list a resolved getAvailablePurchases was answered with
AnsweredList == IF Len(nativeLog) = 1 THEN nativeLog[1].answer.items ELSE <<>>

\* C10: for any native purchase payload p, the object a listener callback
\* receives when the native layer emits p equals the element
\* getAvailablePurchases returns when the native layer returns p in its list;
\* a purchase emitted with platform 'IOS' reaches the listener as 'ios'.
C10_PushEqualsPull ==
  \A l \in ListenerIds : \A i \in DOMAIN received[l] :
    /\ received[l][i].event.platform = "IOS" => received[l][i].purchase.platform = "ios"
    /\ (AvailableCall /\ call.outcome = "resolved") =>
         /\ Len(call.value.items) = Len(AnsweredList)
         /\ \A j \in DOMAIN AnsweredList :
              AnsweredList[j] = received[l][i].event =>
                call.value.items[j] = received[l][i].purchase

C10_Witness ==
  /\ AvailableCall
  /\ call.outcome = "resolved"
  /\ \E l \in ListenerIds : \E i \in DOMAIN received[l] : \E j \in DOMAIN AnsweredList :
       /\ received[l][i].event.platform = "IOS"
       /\ AnsweredList[j] = received[l][i].event
       /\ call.value.items[j] = received[l][i].purchase
       /\ call.value.items[j].platform = "ios"

\* the events a listener callback was called for, in the order of its calls
EventsOf(l) == [i \in 1..Len(received[l]) |-> received[l][i].event]

\* C11: each listener callback is called separately for each purchase-updated
\* event emitted while it is registered, in the order the native layer
\* emitted them: its calls are, one call per event, a run of consecutive
\* emitted events, and for a registered listener the run ends with the
\* newest event.
C11_InOrderDelivery ==
  \A l \in ListenerIds :
    \E first \in 1..(Len(emitted) + 1) :
      LET last == first + Len(received[l]) - 1 IN
      /\ last <= Len(emitted)
      /\ EventsOf(l) = [i \in 1..Len(received[l]) |-> emitted[first + i - 1]]
      /\ l \in listeners => last = Len(emitted)

C11_Witness ==
  \E l \in listeners :
    /\ Len(emitted) = 2
    /\ emitted[1] # emitted[2]
    /\ EventsOf(l) = emitted

NormalizeCall == call.fn = "normalizePurchasePlatform"

\* the platform strings whose lower-cased form is 'ios', and 'android'
LowersToIos == {"ios", "IOS", "iOS"}
LowersToAndroid == {"android", "Android", "ANDROID"}

\* C12: purchase normalization replaces the platform field by its lower-cased
\* form if and only if that form is 'ios' or 'android'; otherwise (platform
\* not a string, or lower-casing to anything else) the platform is unchanged;
\* no other field is ever changed.
C12_NormalizeIff ==
  NormalizeCall =>
    LET purchase == call.args
        result == call.value.items[1]
    IN /\ purchase.platform \in LowersToIos => result.platform = "ios"
       /\ purchase.platform \in LowersToAndroid => result.platform = "android"
       /\ purchase.platform \notin (LowersToIos \cup LowersToAndroid) =>
            result.platform = purchase.platform
       /\ [result EXCEPT !.platform = purchase.platform] = purchase

C12_Witness ==
  /\ NormalizeCall
  /\ call.args.platform = "Web"
  /\ call.value.items[1] = call.args

\* C13: getAvailablePurchases resolves to [] whenever the native
\* available-purchases call yields null; it neither resolves to null nor throws.
C13_NullGivesEmptyList ==
  (AvailableCall /\ Len(nativeLog) = 1 /\ nativeLog[1].answer = JNull) =>
    /\ call.outcome = "resolved"
    /\ call.value = JArray(<<>>)

RestoreCall == call.fn = "restorePurchases"

IsSyncStep(i) == RestoreCall /\ nativeLog[i].op = "syncIOS"

\* C15: apart from the iOS sync step of restorePurchases, a native call that
\* fails rejects the API call that made it, at once: nothing is invoked after
\* the failed call, and the failed operation is not invoked a second time.
C15_FailFastNoRetry ==
  \A i \in 1..Len(nativeLog) :
    (nativeLog[i].answer = NativeRejected /\ ~IsSyncStep(i)) =>
      /\ call.outcome = "rejected"
      /\ i = Len(nativeLog)
      /\ \A j \in 1..Len(nativeLog) : j # i => nativeLog[j].op # nativeLog[i].op

C15_Witness ==
  /\ RestoreCall /\ os = "ios"
  /\ Len(nativeLog) = 2
  /\ nativeLog[1].answer = JTrue
  /\ nativeLog[2].answer = NativeRejected
  /\ call.outcome = "rejected"

\* C16: every error a unified-API function throws carries a code of the
\* ErrorCode enumeration; stated here for the errors the library throws
\* itself, before any native call (argument validation, unsupported platform).
C16_ThrownErrorsAreCoded ==
  (call.fn \in {"fetchProducts", "requestPurchase", "finishTransaction"}
     /\ call.outcome = "rejected" /\ nativeLog = <<>>) =>
    call.error.code \in ErrorCode

\* the step in which the module body runs and the backend is bound
ResolveStep == resolution.status = "unresolved" /\ resolution'.status # "unresolved"

\* C17: the backend is resolved once: after the module is evaluated, the
\* bound backend (and with it USING_ONSIDE_SDK) never changes, whatever
\* installedFromOnside becomes and whatever the native modules do later.
C17_ResolvedOnce ==
  [][resolution.status # "unresolved" => resolution' = resolution]_vars

\* the backend is bound, and resolving now would give another answer
C17_Witness ==
  /\ resolution.status = "resolved"
  /\ resolution.name = "ExpoIap"
  /\ resolveNativeModule(nativeModules, installedFromOnside).status = "resolved"
  /\ resolveNativeModule(nativeModules, installedFromOnside).name = "ExpoIapOnside"

\* a load failure of the module-not-found class, for the Onside candidate
OnsideNotFound(out) ==
  /\ out.kind = "throw"
  /\ \/ out.error.class = "UnavailabilityError"
     \/ /\ out.error.class = "Error"
        /\ \E i \in 1..Len(out.error.message) :
             out.error.message[i] = "Cannot find native module 'ExpoIapOnside'"

\* the loaded Onside module reports itself installed: its constant
\* IS_ONSIDE_KIT_INSTALLED_IOS is true and the marketplace check said true
OnsideInstalled(out) ==
  out.kind = "module" /\ out.kit = "true" /\ installedFromOnside = "true"

\* the loaded Onside module reports itself inert
OnsideInert(out) ==
  out.kind = "module" /\ (out.kit = "false" \/ installedFromOnside # "true")

\* C18: resolution selects ExpoIapOnside whenever it loads and reports itself
\* installed, and selects ExpoIap only when ExpoIapOnside is missing or
\* reports itself inert.
C18_OnsideFirst ==
  [][ResolveStep =>
       LET out == nativeModules["ExpoIapOnside"] IN
         /\ OnsideInstalled(out) =>
              resolution'.status = "resolved" /\ resolution'.name = "ExpoIapOnside"
         /\ (resolution'.status = "resolved" /\ resolution'.name = "ExpoIap") =>
              OnsideNotFound(out) \/ OnsideInert(out)]_vars

C18_Witness ==
  /\ resolution.status = "resolved"
  /\ resolution.name = "ExpoIapOnside"
  /\ resolution.tried = <<"ExpoIapOnside">>

\* C19: when loading ExpoIapOnside fails with a module-not-found-class error,
\* resolution goes on to try ExpoIap; when it fails with any other error,
\* resolution aborts with that error and ExpoIap is not tried.
C19_OnlyNotFoundFallsBack ==
  [][ResolveStep =>
       LET out == nativeModules["ExpoIapOnside"] IN
         out.kind = "throw" =>
           IF OnsideNotFound(out)
             THEN resolution'.tried = <<"ExpoIapOnside", "ExpoIap">>
             ELSE /\ resolution'.status = "failed"
                  /\ resolution'.error = out.error
                  /\ resolution'.tried = <<"ExpoIapOnside">>]_vars

C19_Witness ==
  /\ resolution.status = "failed"
  /\ resolution.tried = <<"ExpoIapOnside">>
  /\ resolution.error.class # "UnavailabilityError"

\* C20: when ExpoIapOnside was passed over and ExpoIap was not accepted
\* either, resolution fails with an UnavailabilityError naming 'expo-iap'.
C20_FailsWithUnavailability ==
  (resolution.status = "failed" /\ resolution.tried = <<"ExpoIapOnside", "ExpoIap">>) =>
    /\ resolution.error.class = "UnavailabilityError"
    /\ resolution.error.moduleName = "expo-iap"

MapperCall == call.fn = "fromPlatformCode"

\* C21: fromPlatformCode always returns a member of ErrorCode: a member the
\* native table maps to the code when the table has the code, Unknown when it
\* has not; when the bridge has no ERROR_CODES map every lookup gives Unknown.
C21_LookupInEnum ==
  MapperCall =>
    LET errorCodes == call.args.errorCodes
        code == call.args.code
        present == errorCodes.defined /\ \E k \in TableKeys : errorCodes.map[k] = code
    IN /\ call.value \in ErrorCode
       /\ present => errorCodes.map[call.value] = code
       /\ ~present => call.value = "unknown"

C21_Witness ==
  /\ MapperCall
  /\ ~call.args.errorCodes.defined
  /\ call.args.code = "#3"
  /\ call.value = "unknown"

\* C22: promotedProductListenerIOS off iOS and userChoiceBillingListenerAndroid
\* off Android do not throw and return a subscription whose remove() does
\* nothing; the callback is never registered with the emitter, so it is never
\* invoked.
C22_OffPlatformIsNoop ==
  \A fn \in ExclusiveFns :
    os # PlatformOf(fn) =>
      /\ call.fn = fn => call.outcome = "resolved" /\ call.value.kind = "noop"
      /\ \A sub \in subscriptions : sub.fn = fn => sub.kind = "noop"
      /\ \A l \in exclusiveListeners \cup invoked : l.event # EventOf(fn)

C22_Witness ==
  /\ os = "android"
  /\ call.fn = "promotedProductListenerIOS"
  /\ call.value.kind = "noop"
  /\ \E l \in invoked : l.event = "user-choice-billing-android"

\* C23: the continuation of each Onside restorePurchases call is resumed
\* exactly once, however the completion handler, the observer's callbacks and
\* cleanup interleave: never twice, and once the restore has run, once.
C23_ResumedExactlyOnce ==
  \A r \in Restores :
    /\ restores[r].resumes <= 1
    /\ restores[r].stage = "done" => restores[r].resumes = 1

\* restore call r is in flight: the store's restore was started for it and
\* its continuation has not been resumed
InFlight(r) == restores[r].stage = "started" /\ restores[r].resumes = 0

\* C26: at most one Onside restore is in flight at any time: a restorePurchases
\* call made while an earlier one has not completed fails with
\* restoreInProgress and starts no second store restore.
C26_OneRestoreInFlight ==
  \A r, q \in Restores : (InFlight(r) /\ InFlight(q)) => r = q

\* C25: every Onside product fetch that was started has its continuation
\* resumed exactly once, with the answer to its own request, also when two
\* fetches overlap: never twice, never with another request's answer, and
\* never left waiting once its request is over.
C25_FetchResumedWithOwnAnswer ==
  \A f \in Fetches :
    fetches[f].stage = "awaiting" =>
      /\ fetches[f].resumes <= 1
      /\ fetches[f].resumes = 1 => fetches[f].from = f
      /\ fetches[f].request \in {"answered", "stopped"} => fetches[f].resumes = 1

\* C28: with the Onside backend, a transaction that was announced to JS as a
\* purchase-updated event and is not yet finished can be finished: a
\* finishTransaction call with its transactionId succeeds, also after
\* endConnection and initConnection.
C28_DeliveredStaysFinishable ==
  [][(Idle /\ FinishCall' /\ OnsideActive
        /\ call'.args.purchase.transactionId \in delivered
        /\ store[call'.args.purchase.transactionId] = "pending") =>
       call'.outcome = "resolved"]_vars

\* C24: in the Horizon module the registry of buy-item promises holds only
\* promises that are still unsettled: a promise buyItemByType rejected itself
\* (offer mismatch, SKU not found, launch failure) is not in the registry any
\* more, so a later onPurchasesUpdated never meets it there.
C24_RegistryHoldsUnsettled ==
  \A i \in 1..Len(promises) : promise[promises[i]].state = "pending"

\* C27: in the Horizon module, when endConnection completes, the registry is
\* empty and no buyItemByType promise is left pending: each pending one was
\* rejected with E_CONNECTION_CLOSED.
C27_EndConnectionRejectsPending ==
  [][HorizonEndConnection =>
       /\ promises' = <<>>
       /\ \A p \in Promises :
            (promise[p].op = "buyItemByType" /\ promise[p].state = "pending") =>
              (promise'[p].state = "rejected" /\ promise'[p].code = "E_CONNECTION_CLOSED")]_vars

\* what one step appended to the log
Appended == SubSeq(horizonLog', Len(horizonLog) + 1, Len(horizonLog'))
\* the promises of the registry an update settles
Awaiting == {p \in Promises : InRegistry(p) /\ StillPending(p)}
AllOfKind(entries, kind) == \A i \in 1..Len(entries) : entries[i].kind = kind
SettledPromises(entries) == {entries[i].promise : i \in 1..Len(entries)}
\* the events announce the purchases of `value`, one each, in list order
AnnouncesPurchases(events, value) ==
  /\ \A i \in 1..Len(events) : events[i].name = "purchase-updated"
  /\ \/ /\ value.tag = "array"
        /\ Len(events) = Len(value.items)
        /\ \A i \in 1..Len(events) : events[i].value = JObject(value.items[i])
     \/ /\ value = NullPurchasesResult
        /\ events = <<SentEventWith("purchase-updated", UNDEF, value)>>
\* the events announce the failure `code`: one purchase-error, nothing else
AnnouncesError(events, code) ==
  /\ Len(events) = 1
  /\ events[1].name = "purchase-error"
  /\ events[1].code = code
UpdateValues == {UpdateValue(purchases) : purchases \in UpdatePurchases}
UpdateErrorCodes == {"E_USER_CANCELLED"}

BuyReached(p) ==
  /\ promise[p].op = "buyItemByType" \/ promise[p].state = "free"
  /\ promise'[p].op = "buyItemByType"
  /\ promises' = Append(promises, p)
Requested(p) == {promise'[p].params.skuArr[i] : i \in 1..Len(promise'[p].params.skuArr)}
\* the sku was asked for by a getItemsByType call that resolved after the
\* last endConnection
FetchedSinceEnd(sku) ==
  \E j \in 1..Len(horizonLog) :
    /\ horizonLog[j].kind = "settle"
    /\ horizonLog[j].name = "resolved"
    /\ promise[horizonLog[j].promise].op = "getItemsByType"
    /\ \E i \in 1..Len(promise[horizonLog[j].promise].params.skuArr) :
         promise[horizonLog[j].promise].params.skuArr[i] = sku
    /\ \A k \in (j + 1)..Len(horizonLog) :
         ~(horizonLog[k].kind = "settle" /\ promise[horizonLog[k].promise].op = "endConnection")
\* a billing flow is launched only for skus fetched since the last endConnection
LaunchOnlyFetched ==
  \A p \in Promises :
    (\E i \in 1..Len(Appended) : Appended[i] = Launched(p)) =>
      \A sku \in Requested(p) : FetchedSinceEnd(sku)
\* the call is refused as naming an unknown sku: rejected with
\* E_SKU_NOT_FOUND after one purchase-error event naming such a sku, no flow
RefusedAsNotFound(p) ==
  /\ promise'[p].state = "rejected"
  /\ promise'[p].code = "E_SKU_NOT_FOUND"
  /\ flows' = flows
  /\ \E sku \in Requested(p) \ cachedSkus :
       Appended = <<SentEventWith("purchase-error", "E_SKU_NOT_FOUND", JObject(sku)),
                    Settled(p, "rejected", "E_SKU_NOT_FOUND")>>

====
